---- MODULE Spec2Model ----
(***************************************************************************)
(* The two BattINFO example notebooks: the time-series schema notebook     *)
(* (src/unnamed/part_000) and the electrolyte notebook                     *)
(* (src/notebooks/battinfo_example_electrolyte.ipynb).                     *)
(*                                                                         *)
(* A run starts with the graph g parsed (cells 1-4), executes the fixed    *)
(* SPARQL query (cell 6) and then formats and prints the rows (cell 7).    *)
(* Texts are sequences of characters, so that str.lower() and the          *)
(* truthiness of an RDF term are computed, not assumed.                    *)
(***************************************************************************)
EXTENDS Integers, Sequences, FiniteSets, TLC

\* Largest number of csvw:Column nodes / solvent constituents in a document.
MaxColumns == 2
MaxComponents == 2

VARIABLES notebook, g, pc, results, i, output, stdout,
          required_status, property_name, unit_name,
          component_label, electrolyte_label, fault

vars == <<notebook, g, pc, results, i, output, stdout,
          required_status, property_name, unit_name,
          component_label, electrolyte_label, fault>>

-----------------------------------------------------------------------------
(* Python / rdflib values.  Every value carries its text (lex).            *)

None == [kind |-> "None", lex |-> <<>>, datatype |-> "none"]
Unset == [kind |-> "Unset", lex |-> <<>>, datatype |-> "none"]
PyStr(t) == [kind |-> "str", lex |-> t, datatype |-> "none"]
URIRef(t) == [kind |-> "URIRef", lex |-> t, datatype |-> "none"]
Literal(t, dt) == [kind |-> "Literal", lex |-> t, datatype |-> dt]

Digits == <<"1", "2", "3", "4", "5", "6", "7", "8", "9">>
Digit(n) == Digits[n]

T_true == <<"t", "r", "u", "e">>
T_True == <<"T", "r", "u", "E">>
T_false == <<"f", "a", "l", "s", "e">>
T_yes == <<"y", "e", "s">>
T_one == <<"1">>
T_zero == <<"0">>
T_None == <<"N", "o", "n", "e">>
T_Required == <<"R", "e", "q", "u", "i", "r", "e", "d">>
T_Optional == <<"O", "p", "t", "i", "o", "n", "a", "l">>

\* str.lower(), character by character.
LowerChar(c) ==
    CASE c = "T" -> "t" [] c = "R" -> "r" [] c = "U" -> "u" [] c = "E" -> "e"
      [] c = "F" -> "f" [] c = "A" -> "a" [] c = "L" -> "l" [] c = "S" -> "s"
      [] c = "Y" -> "y" [] c = "N" -> "n" [] c = "O" -> "o"
      [] OTHER -> c

Lower(t) == [k \in DOMAIN t |-> LowerChar(t[k])]

\* The value space of a typed literal decides its truth value; a literal
\* whose text is not in the lexical space of its datatype has no value and
\* is judged by its length, as is a plain literal.
NumericChars == {"0", "1", "2", "3", "4", "5", "6", "7", "8", "9", "."}

LiteralBool(l) ==
    CASE l.datatype = "boolean" -> Lower(l.lex) \in {T_true, T_one}
      [] l.datatype \in {"integer", "double"} ->
            IF Len(l.lex) > 0 /\ \A k \in DOMAIN l.lex : l.lex[k] \in NumericChars
            THEN \E k \in DOMAIN l.lex : l.lex[k] \notin {"0", "."}
            ELSE Len(l.lex) # 0
      [] OTHER -> Len(l.lex) # 0

\* bool(x) of a row value, the test of `x and ...` and of `x if x else y`.
Truthy(v) ==
    CASE v.kind \in {"None", "Unset"} -> FALSE
      [] v.kind = "Literal" -> LiteralBool(v)
      [] OTHER -> Len(v.lex) # 0

\* str(x), what an f-string field shows.
Str(v) == IF v.kind = "None" THEN T_None ELSE v.lex

-----------------------------------------------------------------------------
(* Vocabulary.                                                             *)

RdfType == URIRef(<<"a">>)
RdfsLabel == URIRef(<<"r", "d", "f", "s", ":", "l", "a", "b", "e", "l">>)
CsvwColumn == URIRef(<<"c", "s", "v", "w", ":", "C", "o", "l">>)
CsvwName == URIRef(<<"c", "s", "v", "w", ":", "n", "a", "m", "e">>)
CsvwTitles == URIRef(<<"c", "s", "v", "w", ":", "t", "i", "t", "l", "e", "s">>)
CsvwPropertyUrl == URIRef(<<"c", "s", "v", "w", ":", "p", "r", "o", "p">>)
CsvwRequired == URIRef(<<"c", "s", "v", "w", ":", "r", "e", "q">>)
HasMeasurementUnit == URIRef(<<"e", ":", "u", "n", "i", "t">>)
Electrolyte == URIRef(<<"e", ":", "E", "l", "y", "t", "e">>)
HasSolvent == URIRef(<<"e", ":", "s", "o", "l", "v">>)
HasConstituent == URIRef(<<"e", ":", "c", "o", "n", "s", "t">>)
HasProperty == URIRef(<<"e", ":", "p", "r", "o", "p">>)
HasNumericalPart == URIRef(<<"e", ":", "n", "u", "m">>)
HasNumberValue == URIRef(<<"e", ":", "v", "a", "l">>)

\* Terms of the ontology a document may refer to: TermA has two labels,
\* TermB one, TermE none; TermX is not a term of the ontology.
TermA == <<"t", ":", "A">>
TermB == <<"t", ":", "B">>
TermE == <<"t", ":", "E">>
TermX == <<"t", ":", "X">>
LabelA1 == <<"V", "o", "l", "t">>
LabelA2 == <<"V">>
LabelB1 == <<"A", "m", "p">>

\* The ontology's label index: the entity of an IRI, None when there is none.
NoEntity == [found |-> FALSE, prefLabel |-> <<>>]
Entity(labels) == [found |-> TRUE, prefLabel |-> labels]

search_one(iri) ==
    CASE iri = TermA -> Entity(<<LabelA1, LabelA2>>)
      [] iri = TermB -> Entity(<<LabelB1>>)
      [] iri = TermE -> Entity(<<>>)
      [] OTHER -> NoEntity

-----------------------------------------------------------------------------
(* Graphs.  A triple is <<subject, predicate, object>>.                    *)

Objects(graph, s, p) == {t[3] : t \in {u \in graph : u[1] = s /\ u[2] = p}}
InstancesOf(graph, c) == {t[1] : t \in {u \in graph : u[2] = RdfType /\ u[3] = c}}
\* A left join (OPTIONAL) leaves the variable unbound when nothing matches.
Optional(S) == IF S = {} THEN {None} ELSE S

\* --- schema documents ---
RequiredChoices ==
    { None, Literal(T_true, "boolean"), Literal(T_True, "none"),
      Literal(T_false, "boolean"), Literal(T_yes, "none") }
\* <<property class, unit>> of a column; None when the document gives none.
TermChoices ==
    { <<URIRef(TermA), URIRef(TermB)>>, <<URIRef(TermB), URIRef(TermA)>>,
      <<None, URIRef(TermA)>>, <<URIRef(TermA), None>>,
      <<URIRef(TermA), URIRef(TermX)>>, <<URIRef(TermE), URIRef(TermA)>> }
ColumnChoices == [required : RequiredChoices, terms : TermChoices]

ColumnNode(n) == URIRef(<<"c", Digit(n)>>)
ColumnName(n) == Literal(<<"c", "o", "l", Digit(n)>>, "none")
ColumnTitle(n) == Literal(<<"T", Digit(n)>>, "none")
PropertyNode(n) == URIRef(<<"p", Digit(n)>>)

ColumnTriples(n, c) ==
    { <<ColumnNode(n), RdfType, CsvwColumn>>,
      <<ColumnNode(n), CsvwName, ColumnName(n)>>,
      <<ColumnNode(n), CsvwTitles, ColumnTitle(n)>>,
      <<ColumnNode(n), CsvwPropertyUrl, PropertyNode(n)>> }
    \cup (IF c.required = None THEN {}
          ELSE {<<ColumnNode(n), CsvwRequired, c.required>>})
    \cup (IF c.terms[2] = None THEN {}
          ELSE {<<ColumnNode(n), HasMeasurementUnit, c.terms[2]>>})
    \cup (IF c.terms[1] = None THEN {}
          ELSE {<<PropertyNode(n), RdfType, c.terms[1]>>})

SchemaGraph(doc) == UNION {ColumnTriples(n, doc[n]) : n \in DOMAIN doc}
SchemaGraphs ==
    {SchemaGraph(doc) : doc \in UNION {[1..n -> ColumnChoices] : n \in 0..MaxColumns}}

\* --- electrolyte documents ---
ComponentKinds ==
    {"ok", "emptyLabel", "zeroLabel", "noLabel",
     "noProperty", "noNumericalPart", "noNumberValue"}
ComponentChoices == [of : 1..2, kind : ComponentKinds]
ElectrolyteLabelKinds == {"ok", "emptyLabel", "noLabel"}

ElectrolyteNode(e) == URIRef(<<"e", Digit(e)>>)
SolventNode(e) == URIRef(<<"s", Digit(e)>>)
ComponentNode(n) == URIRef(<<"k", Digit(n)>>)
ComponentProperty(n) == URIRef(<<"q", Digit(n)>>)
ComponentValue(n) == URIRef(<<"v", Digit(n)>>)
Amount(n) == Literal(<<"0", ".", "3", Digit(n)>>, "double")

ElectrolyteTriples(e, kind) ==
    { <<ElectrolyteNode(e), RdfType, Electrolyte>>,
      <<ElectrolyteNode(e), HasSolvent, SolventNode(e)>> }
    \cup (CASE kind = "ok" ->
                 {<<ElectrolyteNode(e), RdfsLabel, Literal(<<"E", "L", Digit(e)>>, "none")>>}
            [] kind = "emptyLabel" ->
                 {<<ElectrolyteNode(e), RdfsLabel, Literal(<<>>, "none")>>}
            [] OTHER -> {})

ComponentTriples(n, c) ==
    { <<SolventNode(c.of), HasConstituent, ComponentNode(n)>> }
    \cup (CASE c.kind = "noLabel" -> {}
            [] c.kind = "emptyLabel" ->
                 {<<ComponentNode(n), RdfsLabel, Literal(<<>>, "none")>>}
            [] c.kind = "zeroLabel" ->
                 {<<ComponentNode(n), RdfsLabel, Literal(T_zero, "integer")>>}
            [] OTHER ->
                 {<<ComponentNode(n), RdfsLabel, Literal(<<"C", Digit(n)>>, "none")>>})
    \cup (IF c.kind = "noProperty" THEN {}
          ELSE {<<ComponentNode(n), HasProperty, ComponentProperty(n)>>})
    \cup (IF c.kind = "noNumericalPart" THEN {}
          ELSE {<<ComponentProperty(n), HasNumericalPart, ComponentValue(n)>>})
    \cup (IF c.kind = "noNumberValue" THEN {}
          ELSE {<<ComponentValue(n), HasNumberValue, Amount(n)>>})

ElectrolyteGraph(labels, doc) ==
    UNION {ElectrolyteTriples(e, labels[e]) : e \in DOMAIN labels}
    \cup UNION {ComponentTriples(n, doc[n]) : n \in DOMAIN doc}
ElectrolyteGraphs ==
    {ElectrolyteGraph(labels, doc) :
        labels \in [1..2 -> ElectrolyteLabelKinds],
        doc \in UNION {[1..n -> ComponentChoices] : n \in 0..MaxComponents}}

-----------------------------------------------------------------------------
(* The two fixed queries, evaluated over a graph.  The graphs above give   *)
(* every solution a different projection, so a set of rows loses nothing.  *)

SchemaRowsOf(graph, column) ==
    UNION { { [columnName |-> n, columnTitle |-> t, propertyType |-> p,
               propertyClass |-> k, unit |-> u, required |-> r] :
                n \in Objects(graph, column, CsvwName),
                t \in Objects(graph, column, CsvwTitles),
                r \in Optional(Objects(graph, column, CsvwRequired)),
                u \in Optional(Objects(graph, column, HasMeasurementUnit)),
                k \in Optional(Objects(graph, p, RdfType)) } :
            p \in Objects(graph, column, CsvwPropertyUrl) }

SchemaQuery(graph) ==
    UNION {SchemaRowsOf(graph, column) : column \in InstancesOf(graph, CsvwColumn)}

\* ?amount of a component: ?component hasProperty ?property .
\* ?property hasNumericalPart ?value . ?value hasNumberValue ?amount .
AmountsOf(graph, component) ==
    UNION { UNION { Objects(graph, v, HasNumberValue) :
                      v \in Objects(graph, p, HasNumericalPart) } :
            p \in Objects(graph, component, HasProperty) }

ComponentsOf(graph, electrolyte) ==
    UNION { Objects(graph, s, HasConstituent) :
            s \in Objects(graph, electrolyte, HasSolvent) }

ElectrolyteRowsOf(graph, electrolyte) ==
    UNION { { [electrolyte |-> electrolyte, electrolyteLabel |-> el,
               component |-> c, amount |-> a, componentLabel |-> cl] :
                el \in Objects(graph, electrolyte, RdfsLabel),
                a \in AmountsOf(graph, c),
                cl \in Objects(graph, c, RdfsLabel) } :
            c \in ComponentsOf(graph, electrolyte) }

ElectrolyteQuery(graph) ==
    UNION {ElectrolyteRowsOf(graph, e) : e \in InstancesOf(graph, Electrolyte)}

\* The engine returns the solutions once each, in an order of its own.
Orderings(S) ==
    {s \in [1..Cardinality(S) -> S] :
        \A a, b \in 1..Cardinality(S) : a # b => s[a] # s[b]}

-----------------------------------------------------------------------------
(* Formatting.  A printed line is its template and the texts of its fields.*)

SchemaHeader == [fmt |-> "Time-Series Test Data Schema:", args |-> <<>>]

ColumnLine(row, property, unit, status) ==
    [fmt |-> "Column: {} ({}), Property Class: {}, Unit: {}, Required: {}",
     args |-> <<Str(row.columnName), Str(row.columnTitle),
                Str(property), Str(unit), Str(status)>>]

ComponentLine(label, amount) ==
    [fmt |-> "Component: {}, Volume Fraction: {}",
     args |-> <<Str(label), Str(amount)>>]

ElectrolyteLine(label) ==
    [fmt |-> "Electrolyte: {}", args |-> <<Str(label)>>]

\* Seeded fault: the comparison without .lower().
RequiredStatusCaseSensitive(row) ==
    IF Truthy(row.required) /\ row.required.lex = T_true
    THEN PyStr(T_Required)
    ELSE PyStr(T_Optional)

\* "Required" if row.required and row.required.lower() == "true" else "Optional"
RequiredStatus(row) ==
    IF Truthy(row.required) /\ Lower(row.required.lex) = T_true
    THEN PyStr(T_Required)
    ELSE PyStr(T_Optional)

\* Seeded fault: .prefLabel[-1].
LastPrefLabel(entity) == PyStr(entity.prefLabel[Len(entity.prefLabel)])

\* .prefLabel[0]
FirstPrefLabel(entity) == PyStr(entity.prefLabel[1])

\* The ways battinfo.search_one(iri=term).prefLabel[0] can raise: no entity
\* (attribute access on None), an entity without a label (index out of
\* range); with iri=None the search either rejects the argument or finds
\* nothing.
LookupFaults(term) ==
    IF term = None THEN {"TypeError", "AttributeError"}
    ELSE IF ~search_one(term.lex).found THEN {"AttributeError"}
    ELSE IF Len(search_one(term.lex).prefLabel) = 0 THEN {"IndexError"}
    ELSE {}

LookupLabel(term) == FirstPrefLabel(search_one(term.lex))

\* Seeded faults: output.insert(0, ...).
SchemaPrepend(out, line) == <<line>> \o out
ElectrolytePrepend(out, line) == <<line>> \o out

\* output.append(...)
SchemaAppend(out, line) == Append(out, line)
ElectrolyteAppend(out, line) == Append(out, line)

\* label if label else identifier
ComponentLabel(row) ==
    IF Truthy(row.componentLabel) THEN row.componentLabel ELSE row.component

\* Seeded fault: electrolyte_label assigned by the first row only.
FirstElectrolyteLabel(current, row) ==
    IF current # Unset THEN current
    ELSE IF Truthy(row.electrolyteLabel) THEN row.electrolyteLabel ELSE row.electrolyte

\* The assignment to electrolyte_label made for every row.
ElectrolyteLabel(current, row) ==
    IF Truthy(row.electrolyteLabel) THEN row.electrolyteLabel ELSE row.electrolyte

-----------------------------------------------------------------------------
(* The runs.                                                               *)

Init ==
    /\ notebook \in {"schema", "electrolyte"}
    /\ g \in (IF notebook = "schema" THEN SchemaGraphs ELSE ElectrolyteGraphs)
    /\ pc = "query"
    /\ results = <<>>
    /\ i = 0
    /\ output = <<>>
    /\ stdout = <<>>
    /\ required_status = Unset
    /\ property_name = Unset
    /\ unit_name = Unset
    /\ component_label = Unset
    /\ electrolyte_label = Unset
    /\ fault = "none"

schemaLocals == <<required_status, property_name, unit_name>>
electrolyteLocals == <<component_label, electrolyte_label>>

\* results = g.query(query)
SchemaExecuteQuery ==
    /\ notebook = "schema" /\ pc = "query"
    /\ results' \in Orderings(SchemaQuery(g))
    /\ pc' = "display"
    /\ UNCHANGED <<notebook, g, i, output, stdout, schemaLocals, electrolyteLocals, fault>>

\* output = []
SchemaBegin ==
    /\ notebook = "schema" /\ pc = "display"
    /\ output' = <<>> /\ i' = 1 /\ pc' = "loop"
    /\ UNCHANGED <<notebook, g, results, stdout, schemaLocals, electrolyteLocals, fault>>

\* Seeded fault: each line printed as soon as it is formatted.
SchemaFormatRowEager ==
    /\ notebook = "schema" /\ pc = "loop" /\ i <= Len(results)
    /\ LET row == results[i] IN
        /\ required_status' = RequiredStatus(row)
        /\ IF LookupFaults(row.propertyClass) # {} \/ LookupFaults(row.unit) # {}
           THEN /\ fault' \in LookupFaults(row.propertyClass) \cup LookupFaults(row.unit)
                /\ pc' = "fault"
                /\ UNCHANGED <<property_name, unit_name, output, stdout, i>>
           ELSE /\ property_name' = LookupLabel(row.propertyClass)
                /\ unit_name' = LookupLabel(row.unit)
                /\ output' = SchemaAppend(output,
                       ColumnLine(row, property_name', unit_name', required_status'))
                /\ stdout' = Append(stdout, output'[Len(output')])
                /\ i' = i + 1
                /\ UNCHANGED <<pc, fault>>
    /\ UNCHANGED <<notebook, g, results, electrolyteLocals>>

\* One iteration of `for row in results:`.
SchemaFormatRow ==
    /\ notebook = "schema" /\ pc = "loop" /\ i <= Len(results)
    /\ LET row == results[i] IN
        /\ required_status' = RequiredStatus(row)
        /\ IF LookupFaults(row.propertyClass) # {}
           THEN /\ fault' \in LookupFaults(row.propertyClass)
                /\ pc' = "fault"
                /\ UNCHANGED <<property_name, unit_name, output, i>>
           ELSE /\ property_name' = LookupLabel(row.propertyClass)
                /\ IF LookupFaults(row.unit) # {}
                   THEN /\ fault' \in LookupFaults(row.unit)
                        /\ pc' = "fault"
                        /\ UNCHANGED <<unit_name, output, i>>
                   ELSE /\ unit_name' = LookupLabel(row.unit)
                        /\ output' = SchemaAppend(output,
                               ColumnLine(row, property_name', unit_name', required_status'))
                        /\ i' = i + 1
                        /\ UNCHANGED <<pc, fault>>
    /\ UNCHANGED <<notebook, g, results, stdout, electrolyteLocals>>

\* print("Time-Series Test Data Schema:")
SchemaPrintHeader ==
    /\ notebook = "schema" /\ pc = "loop" /\ i > Len(results)
    /\ stdout' = Append(stdout, SchemaHeader)
    /\ i' = 1 /\ pc' = "print"
    /\ UNCHANGED <<notebook, g, results, output, schemaLocals, electrolyteLocals, fault>>

\* One iteration of `for line in output: print(line)`.
SchemaPrintLine ==
    /\ notebook = "schema" /\ pc = "print" /\ i <= Len(output)
    /\ stdout' = Append(stdout, output[i])
    /\ i' = i + 1
    /\ UNCHANGED <<notebook, g, pc, results, output, schemaLocals, electrolyteLocals, fault>>

SchemaFinish ==
    /\ notebook = "schema" /\ pc = "print" /\ i > Len(output)
    /\ pc' = "done"
    /\ UNCHANGED <<notebook, g, results, i, output, stdout, schemaLocals, electrolyteLocals, fault>>

\* results = g.query(query)
ElectrolyteExecuteQuery ==
    /\ notebook = "electrolyte" /\ pc = "query"
    /\ results' \in Orderings(ElectrolyteQuery(g))
    /\ pc' = "display"
    /\ UNCHANGED <<notebook, g, i, output, stdout, schemaLocals, electrolyteLocals, fault>>

\* output = []
ElectrolyteBegin ==
    /\ notebook = "electrolyte" /\ pc = "display"
    /\ output' = <<>> /\ i' = 1 /\ pc' = "loop"
    /\ UNCHANGED <<notebook, g, results, stdout, schemaLocals, electrolyteLocals, fault>>

\* One iteration of `for row in results:`.
ElectrolyteFormatRow ==
    /\ notebook = "electrolyte" /\ pc = "loop" /\ i <= Len(results)
    /\ LET row == results[i] IN
        /\ component_label' = ComponentLabel(row)
        /\ electrolyte_label' = ElectrolyteLabel(electrolyte_label, row)
        /\ output' = ElectrolyteAppend(output, ComponentLine(component_label', row.amount))
    /\ i' = i + 1
    /\ UNCHANGED <<notebook, g, pc, results, stdout, schemaLocals, fault>>

\* Seeded fault: electrolyte_label initialised to None before the loop.
ElectrolytePrintHeaderUnchecked ==
    /\ notebook = "electrolyte" /\ pc = "loop" /\ i > Len(results)
    /\ stdout' = Append(stdout,
           ElectrolyteLine(IF electrolyte_label = Unset THEN None ELSE electrolyte_label))
    /\ i' = 1 /\ pc' = "print"
    /\ UNCHANGED <<notebook, g, results, output, schemaLocals, electrolyteLocals, fault>>

\* print(f"Electrolyte: {electrolyte_label}"): the name is unbound when the
\* loop body never ran, and the f-string is evaluated before print is called.
ElectrolytePrintHeader ==
    /\ notebook = "electrolyte" /\ pc = "loop" /\ i > Len(results)
    /\ IF electrolyte_label = Unset
       THEN /\ pc' = "fault" /\ fault' = "NameError"
            /\ UNCHANGED <<stdout, i>>
       ELSE /\ stdout' = Append(stdout, ElectrolyteLine(electrolyte_label))
            /\ i' = 1 /\ pc' = "print"
            /\ UNCHANGED fault
    /\ UNCHANGED <<notebook, g, results, output, schemaLocals, electrolyteLocals>>

\* One iteration of `for line in output: print(line)`.
ElectrolytePrintLine ==
    /\ notebook = "electrolyte" /\ pc = "print" /\ i <= Len(output)
    /\ stdout' = Append(stdout, output[i])
    /\ i' = i + 1
    /\ UNCHANGED <<notebook, g, pc, results, output, schemaLocals, electrolyteLocals, fault>>

ElectrolyteFinish ==
    /\ notebook = "electrolyte" /\ pc = "print" /\ i > Len(output)
    /\ pc' = "done"
    /\ UNCHANGED <<notebook, g, results, i, output, stdout, schemaLocals, electrolyteLocals, fault>>

Next ==
    \/ SchemaExecuteQuery
    \/ SchemaBegin
    \/ SchemaFormatRow
    \/ SchemaPrintHeader
    \/ SchemaPrintLine
    \/ SchemaFinish
    \/ ElectrolyteExecuteQuery
    \/ ElectrolyteBegin
    \/ ElectrolyteFormatRow
    \/ ElectrolytePrintHeader
    \/ ElectrolytePrintLine
    \/ ElectrolyteFinish

Spec == Init /\ [][Next]_vars

-----------------------------------------------------------------------------
(* Properties.                                                             *)

Queried == pc # "query"
Printing == pc \in {"print", "done"}
LinesOf(fmt) == {k \in 1..Len(stdout) : stdout[k].fmt = fmt}

\* A value that is bound and whose text is "true" in any letter case.
IsTrueText(v) == v # None /\ Lower(v.lex) \in {T_true}
ExpectedStatus(row) == IF IsTrueText(row.required) THEN T_Required ELSE T_Optional

\* The labels the ontology holds for a bound identifier; <<>> when the
\* identifier is unbound, unknown to the ontology or unlabelled.
IndexLabels(term) ==
    IF term = None THEN <<>>
    ELSE IF term.lex = TermA THEN <<LabelA1, LabelA2>>
    ELSE IF term.lex = TermB THEN <<LabelB1>>
    ELSE <<>>
Resolves(term) == Len(IndexLabels(term)) > 0

ExpectedColumnLine(row) ==
    [fmt |-> "Column: {} ({}), Property Class: {}, Unit: {}, Required: {}",
     args |-> <<row.columnName.lex, row.columnTitle.lex,
                IndexLabels(row.propertyClass)[1], IndexLabels(row.unit)[1],
                ExpectedStatus(row)>>]

\* C1: in the schema formatter the status of every row is "Required" when
\* the row's required value is bound and reads "true" in any letter case,
\* and "Optional" for every other value; no other status is produced.
C1_RequiredStatus ==
    notebook = "schema" =>
        /\ \A k \in 1..Len(output) :
              /\ output[k].args[5] = ExpectedStatus(results[k])
              /\ output[k].args[5] \in {T_Required, T_Optional}
        /\ (pc \in {"loop", "fault"} /\ i > 1) \/ pc = "fault" =>
              required_status.lex =
                  ExpectedStatus(results[IF pc = "fault" THEN i ELSE i - 1])

C1_Witness ==
    /\ notebook = "schema" /\ pc = "done" /\ Len(output) = 2
    /\ results[1].required = Literal(T_True, "none")
    /\ output[1].args[5] = T_Required
    /\ results[2].required = Literal(T_false, "boolean")
    /\ output[2].args[5] = T_Optional

\* C2: in the schema formatter a row whose unit and property class are
\* both labelled in the ontology is shown with the first label of each,
\* never with the identifier itself and never with a later label.
C2_FirstLabel ==
    notebook = "schema" =>
        \A k \in 1..Len(output) :
            LET row == results[k]
                cls == IndexLabels(row.propertyClass)
                unit == IndexLabels(row.unit)
            IN  (Resolves(row.propertyClass) /\ Resolves(row.unit)) =>
                  /\ output[k].args[3] = cls[1]
                  /\ output[k].args[4] = unit[1]
                  /\ output[k].args[3] # row.propertyClass.lex
                  /\ output[k].args[4] # row.unit.lex
                  /\ \A m \in 2..Len(cls) : output[k].args[3] # cls[m]
                  /\ \A m \in 2..Len(unit) : output[k].args[4] # unit[m]

C2_Witness ==
    /\ notebook = "schema" /\ pc = "done" /\ Len(output) >= 1
    /\ results[1].propertyClass = URIRef(TermA)
    /\ results[1].unit = URIRef(TermB)
    /\ stdout[2].args[3] = LabelA1
    /\ stdout[2].args[4] = LabelB1

\* C3: the schema formatter does not fault on a row whose unit or property
\* class is unbound, unknown to the ontology or unlabelled; the row gets a
\* line that shows the raw identifier, and the run completes.
C3_NoFaultOnUnresolved ==
    notebook = "schema" =>
        /\ pc # "fault"
        /\ pc = "done" => Len(output) = Len(results)
        /\ \A k \in 1..Len(output) :
              /\ ~Resolves(results[k].propertyClass) =>
                    output[k].args[3] = Str(results[k].propertyClass)
              /\ ~Resolves(results[k].unit) =>
                    output[k].args[4] = Str(results[k].unit)

\* C4 as stated: when every identifier resolves, the schema run writes
\* exactly n lines for n rows, the k-th from the k-th row, and nothing else.
C4_ExactlyOneLinePerRow ==
    (notebook = "schema" /\ pc = "done") =>
        /\ Len(stdout) = Len(results)
        /\ \A k \in 1..Len(stdout) : stdout[k] = ExpectedColumnLine(results[k])

\* C4 amended: when every identifier resolves, the schema run writes the
\* header line "Time-Series Test Data Schema:" and then exactly n lines for
\* n rows, the k-th of them from the k-th row of the result, and nothing
\* else; what has been written so far is always a prefix of that.
C4_HeaderThenOneLinePerRow ==
    (notebook = "schema" /\ Queried
        /\ \A k \in 1..Len(results) :
              Resolves(results[k].propertyClass) /\ Resolves(results[k].unit)) =>
        /\ pc # "fault"
        /\ Len(stdout) <= Len(results) + 1
        /\ \A k \in 1..Len(stdout) :
              stdout[k] = IF k = 1 THEN SchemaHeader
                          ELSE ExpectedColumnLine(results[k - 1])
        /\ pc = "done" => Len(stdout) = Len(results) + 1

C4_Witness ==
    /\ notebook = "schema" /\ pc = "done"
    /\ Len(results) = 2 /\ Len(stdout) = 3
    /\ stdout[2] # stdout[3]

\* C5: for a non-empty result of n rows the electrolyte run writes one
\* "Electrolyte:" line first and then exactly n "Component:" lines, the
\* k-th from the k-th row; the electrolyte line is never repeated and never
\* follows a component line.
C5_ElectrolyteThenComponents ==
    (notebook = "electrolyte" /\ Queried /\ Len(results) > 0) =>
        /\ pc # "fault"
        /\ Len(stdout) <= Len(results) + 1
        /\ LinesOf("Electrolyte: {}") = (IF stdout = <<>> THEN {} ELSE {1})
        /\ \A k \in 2..Len(stdout) :
              /\ stdout[k].fmt = "Component: {}, Volume Fraction: {}"
              /\ stdout[k].args[2] = results[k - 1].amount.lex
              /\ stdout[k].args[1] \in
                    {results[k - 1].componentLabel.lex, results[k - 1].component.lex}
        /\ pc = "done" => Len(stdout) = Len(results) + 1

C5_Witness ==
    /\ notebook = "electrolyte" /\ pc = "done"
    /\ Len(results) = 2 /\ Len(stdout) = 3
    /\ stdout[2] # stdout[3]

\* C6 as stated: in both notebooks a query without rows ends in a fault,
\* never in normal completion.
C6_EmptyResultFaults ==
    (Queried /\ Len(results) = 0) => pc # "done"

\* C6 amended: in the electrolyte notebook a query without rows ends in an
\* uncaught fault (the unbound name electrolyte_label) with nothing
\* written, never in normal completion; in the schema notebook it ends in
\* normal completion with the header line alone written.
C6_EmptyResultFaultsElectrolyteOnly ==
    (Queried /\ Len(results) = 0) =>
        /\ notebook = "electrolyte" =>
              /\ pc \in {"display", "loop", "fault"}
              /\ pc = "fault" => fault = "NameError"
              /\ stdout = <<>>
        /\ notebook = "schema" =>
              /\ pc # "fault"
              /\ pc = "done" => stdout = <<SchemaHeader>>

C6_Witness ==
    /\ notebook = "electrolyte" /\ Len(results) = 0
    /\ pc = "fault" /\ fault = "NameError"

\* C7: in the electrolyte formatter the component text is the row's
\* componentLabel when that is bound and not empty and the component
\* identifier otherwise, the electrolyte text likewise, and the formatter
\* never faults on an unbound or empty label.
C7_LabelUnlessEmpty ==
    notebook = "electrolyte" =>
        /\ Len(results) > 0 => pc # "fault"
        /\ \A k \in 1..Len(output) :
              output[k].args[1] =
                  IF results[k].componentLabel # None /\ results[k].componentLabel.lex # <<>>
                  THEN results[k].componentLabel.lex
                  ELSE results[k].component.lex
        /\ (pc = "loop" /\ i > 1) =>
              electrolyte_label.lex =
                  IF results[i - 1].electrolyteLabel # None
                     /\ results[i - 1].electrolyteLabel.lex # <<>>
                  THEN results[i - 1].electrolyteLabel.lex
                  ELSE results[i - 1].electrolyte.lex

\* C8: in both notebooks nothing is written before every row has been
\* formatted; a run that faults has written no line at all.
C8_NothingWrittenUntilFormatted ==
    pc \in {"query", "display", "loop", "fault"} => stdout = <<>>

C8_Witness ==
    /\ notebook = "schema" /\ pc = "fault"
    /\ i = 2 /\ Len(output) = 1 /\ stdout = <<>>

\* C9: the single "Electrolyte:" line of the electrolyte run shows the
\* label of the last row of the result, whatever electrolytes the rows
\* belong to, and the component lines of all rows are printed under it.
C9_LastRowLabel ==
    (notebook = "electrolyte" /\ Printing) =>
        LET last == results[Len(results)] IN
        /\ stdout[1] =
              [fmt |-> "Electrolyte: {}",
               args |-> <<IF last.electrolyteLabel.lex # <<>>
                          THEN last.electrolyteLabel.lex
                          ELSE last.electrolyte.lex>>]
        /\ Cardinality(LinesOf("Electrolyte: {}")) = 1
        /\ pc = "done" =>
              Cardinality(LinesOf("Component: {}, Volume Fraction: {}")) = Len(results)

C9_Witness ==
    /\ notebook = "electrolyte" /\ pc = "done" /\ Len(results) = 2
    /\ results[1].electrolyte # results[2].electrolyte
    /\ results[1].electrolyteLabel.lex # <<>>
    /\ stdout[1].args[1] = results[2].electrolyteLabel.lex
    /\ stdout[1].args[1] # results[1].electrolyteLabel.lex

\* C10: every row of the electrolyte result has electrolyteLabel,
\* componentLabel and amount bound, a component without a label or without
\* the property / numerical part / number value chain has no row, and the
\* formatter shows a component's identifier only for a label that is bound
\* but empty.
C10_BoundRowsFallbackOnlyEmpty ==
    (notebook = "electrolyte" /\ Queried) =>
        /\ \A k \in 1..Len(results) :
              /\ results[k].electrolyteLabel # None
              /\ results[k].componentLabel # None
              /\ results[k].amount # None
              /\ Objects(g, results[k].component, RdfsLabel) # {}
              /\ AmountsOf(g, results[k].component) # {}
        /\ \A k \in 1..Len(output) :
              output[k].args[1] = results[k].component.lex =>
                  results[k].componentLabel.lex = <<>>

====
